---- MODULE Spec2Model ----
(***************************************************************************)
(* A model of KaitaiStream (src/kaitaistruct.py): a cursor over a seekable *)
(* byte source with a bit accumulator (bits, bits_left), byte reads, the   *)
(* big- and little-endian bit reads, the terminator scan, the integer      *)
(* encoders/decoders and the byte transforms.                              *)
(***************************************************************************)
EXTENDS Integers, Sequences, FiniteSets, TLC

\* ------------------------------------------------------------------------
\* Bounds of the model
\* ------------------------------------------------------------------------

\* longest source built from SourceBytes
MaxLen == 2
\* widest bit read issued among the byte-level calls of Spec
MaxWidth == 4
\* most bytes the sink of SpecCodec takes
MaxSink == 2
\* longest key handed to process_xor_many
MaxKey == 2
\* widest bit read issued in SpecAcc
MaxAccBits == 10
\* largest amount handed to process_rotate_left
MaxAmount == 12
\* widest bit read issued in SpecBits (the code accepts any n; Python integers
\* are unbounded)
MaxBits == 16

\* byte values the enumerated sources are built from: 0x00, 0xA5
SourceBytes == {0, 165}

\* the bytes [0xA5, 0x3C]
OrderExample == <<165, 60>>

\* the bytes "abc\x00def"
TermExample == <<97, 98, 99, 0, 100, 101, 102>>

\* ------------------------------------------------------------------------
\* Python integer operators on non-negative integers
\* ------------------------------------------------------------------------

RECURSIVE Pow2(_)
Pow2(n) == IF n <= 0 THEN 1 ELSE 2 * Pow2(n - 1)

\* x << n
Shl(x, n) == x * Pow2(n)

\* x >> n
Shr(x, n) == x \div Pow2(n)

RECURSIVE BitAnd(_, _)
BitAnd(x, y) ==
    IF x = 0 \/ y = 0 THEN 0
    ELSE (IF x % 2 = 1 /\ y % 2 = 1 THEN 1 ELSE 0) + 2 * BitAnd(x \div 2, y \div 2)

RECURSIVE BitOr(_, _)
BitOr(x, y) ==
    IF x = 0 THEN y
    ELSE IF y = 0 THEN x
    ELSE (IF x % 2 = 1 \/ y % 2 = 1 THEN 1 ELSE 0) + 2 * BitOr(x \div 2, y \div 2)

RECURSIVE BitXor(_, _)
BitXor(x, y) ==
    IF x = 0 THEN y
    ELSE IF y = 0 THEN x
    ELSE (IF x % 2 # y % 2 THEN 1 ELSE 0) + 2 * BitXor(x \div 2, y \div 2)

Min(a, b) == IF a < b THEN a ELSE b

\* s[a:b] of a Python sequence (0-based, half open), as a 1-based sequence
Slice(s, a, b) ==
    LET lo == Min(a, Len(s))
        hi == Min(b, Len(s))
    IN  IF hi <= lo THEN << >> ELSE SubSeq(s, lo + 1, hi)

\* the number a byte sequence denotes, first byte most significant
RECURSIVE BEValue(_)
BEValue(buf) ==
    IF buf = << >> THEN 0 ELSE 256 * BEValue(SubSeq(buf, 1, Len(buf) - 1)) + buf[Len(buf)]

\* the number a byte sequence denotes, first byte least significant
RECURSIVE LEValue(_)
LEValue(buf) == IF buf = << >> THEN 0 ELSE Head(buf) + 256 * LEValue(Tail(buf))

RECURSIVE SeqsOfLen(_, _)
SeqsOfLen(S, n) ==
    IF n = 0 THEN { << >> }
    ELSE { Append(s, b) : s \in SeqsOfLen(S, n - 1), b \in S }

\* the sources a stream is constructed around
Sources == UNION { SeqsOfLen(SourceBytes, n) : n \in 0..MaxLen } \cup { OrderExample }

\* every source of one byte
ByteSources == { <<b>> : b \in 0..255 }

\* ------------------------------------------------------------------------
\* State
\* ------------------------------------------------------------------------

VARIABLES
    data,       \* the bytes of the underlying source self._io
    pos,        \* the cursor of self._io (io.tell())
    bits,       \* self.bits
    bits_left,  \* self.bits_left
    sink,       \* the bytes accepted by the io handed to the write_* methods
    op,         \* name of the last method called
    arg,        \* its arguments
    res,        \* what it returned
    exc,        \* the exception it raised, "none" when it returned
    pre,        \* cursor and accumulator when it was called
    run,        \* the big-endian bit reads made since the accumulator was empty
    written     \* the integers the write_* methods wrote to the sink, in order

vars == <<data, pos, bits, bits_left, sink, op, arg, res, exc, pre, run, written>>

NoArg ==
    [n |-> 0, term |-> 0, include_term |-> FALSE, consume_term |-> FALSE,
     eos_error |-> FALSE, fault |-> "none", shape |-> "none", num |-> 0,
     accepted |-> 0, buf |-> << >>, key |-> << >>, amount |-> 0, group_size |-> 0]

NoRes == [kind |-> "none", int |-> 0, bytes |-> << >>, bool |-> FALSE]
IntRes(i) == [NoRes EXCEPT !.kind = "int", !.int = i]
BytesRes(b) == [NoRes EXCEPT !.kind = "bytes", !.bytes = b]
BoolRes(t) == [NoRes EXCEPT !.kind = "bool", !.bool = t]

Snapshot == [pos |-> pos, bits |-> bits, bits_left |-> bits_left, sink |-> sink]

\* the record of the big-endian bit reads made since the accumulator was last
\* empty: where the cursor was then, how many bits were served since, and the
\* results of the reads concatenated most significant bit first
FreshRun(p, b, bl) ==
    IF b = 0 /\ bl = 0
    THEN [ok |-> TRUE, start |-> p, served |-> 0, value |-> 0]
    ELSE [ok |-> FALSE, start |-> 0, served |-> 0, value |-> 0]

\* ------------------------------------------------------------------------
\* The underlying io object (BytesIO / file semantics)
\* ------------------------------------------------------------------------

\* io.read(n): the bytes returned; the cursor advances by their number
io_read(d, p, n) == Slice(d, p, p + n)

\* io.read(): everything from the cursor to the end
io_read_all(d, p) == Slice(d, p, Len(d))

\* ------------------------------------------------------------------------
\* KaitaiStream.__init__ / align_to_byte
\* ------------------------------------------------------------------------

\* a stream newly constructed around the source d: __init__ calls align_to_byte
Start(d) ==
    /\ data = d
    /\ pos = 0
    /\ bits = 0
    /\ bits_left = 0
    /\ sink = << >>
    /\ op = "init"
    /\ arg = NoArg
    /\ res = NoRes
    /\ exc = "none"
    /\ pre = [pos |-> 0, bits |-> 0, bits_left |-> 0, sink |-> << >>]
    /\ run = FreshRun(0, 0, 0)
    /\ written = << >>

Init == \E d \in Sources : Start(d)

align_to_byte ==
    /\ bits' = 0
    /\ bits_left' = 0
    /\ op' = "align_to_byte"
    /\ arg' = NoArg
    /\ res' = NoRes
    /\ exc' = "none"
    /\ pre' = Snapshot
    /\ run' = FreshRun(pos, 0, 0)
    /\ UNCHANGED <<data, pos, sink, written>>

\* ------------------------------------------------------------------------
\* read_bytes
\* ------------------------------------------------------------------------

\* ShortRead with the comparison off by one
ShortRead_le(r, n) == Len(r) <= n

\* the test `len(r) < n` of read_bytes
ShortRead(r, n) == Len(r) < n

\* outcome of read_bytes(n) with the cursor at p: the exception, the bytes
\* returned and the cursor afterwards
read_bytes_out(d, p, n) ==
    IF n < 0
    THEN [exc |-> "ValueError", bytes |-> << >>, pos |-> p]
    ELSE LET r == io_read(d, p, n)
         IN  IF ShortRead(r, n)
             THEN [exc |-> "EOFError", bytes |-> << >>, pos |-> p + Len(r)]
             ELSE [exc |-> "none", bytes |-> r, pos |-> p + Len(r)]

read_bytes(n) ==
    LET o == read_bytes_out(data, pos, n)
    IN  /\ pos' = o.pos
        /\ op' = "read_bytes"
        /\ arg' = [NoArg EXCEPT !.n = n]
        /\ res' = IF o.exc = "none" THEN BytesRes(o.bytes) ELSE NoRes
        /\ exc' = o.exc
        /\ pre' = Snapshot
        /\ run' = FreshRun(o.pos, bits, bits_left)
        /\ UNCHANGED <<data, bits, bits_left, sink, written>>

\* ------------------------------------------------------------------------
\* Stream positioning: is_eof, seek, pos, size
\* ------------------------------------------------------------------------

\* is_eof without the test of bits_left
is_eof_out_nobits(d, p, bl) ==
    LET t == io_read(d, p, 1)
    IN  IF t = << >>
        THEN [ret |-> TRUE, pos |-> p + Len(t)]
        ELSE [ret |-> FALSE, pos |-> (p + Len(t)) - 1]

\* outcome of is_eof(): the value returned and the cursor afterwards
is_eof_out(d, p, bl) ==
    IF bl > 0
    THEN [ret |-> FALSE, pos |-> p]
    ELSE LET t == io_read(d, p, 1)
         IN  IF t = << >>
             THEN [ret |-> TRUE, pos |-> p + Len(t)]
             ELSE [ret |-> FALSE, pos |-> (p + Len(t)) - 1]

is_eof ==
    LET o == is_eof_out(data, pos, bits_left)
    IN  /\ pos' = o.pos
        /\ op' = "is_eof"
        /\ arg' = NoArg
        /\ res' = BoolRes(o.ret)
        /\ exc' = "none"
        /\ pre' = Snapshot
        /\ run' = FreshRun(o.pos, bits, bits_left)
        /\ UNCHANGED <<data, bits, bits_left, sink, written>>

\* seek that also discards the accumulator
seek_aligning(n) ==
    /\ pos' = IF n < 0 THEN pos ELSE n
    /\ bits' = 0
    /\ bits_left' = 0
    /\ op' = "seek"
    /\ arg' = [NoArg EXCEPT !.n = n]
    /\ res' = NoRes
    /\ exc' = IF n < 0 THEN "ValueError" ELSE "none"
    /\ pre' = Snapshot
    /\ run' = FreshRun(pos', 0, 0)
    /\ UNCHANGED <<data, sink, written>>

\* seek(n): io.seek(n); the source refuses a negative offset
seek(n) ==
    /\ pos' = IF n < 0 THEN pos ELSE n
    /\ op' = "seek"
    /\ arg' = [NoArg EXCEPT !.n = n]
    /\ res' = NoRes
    /\ exc' = IF n < 0 THEN "ValueError" ELSE "none"
    /\ pre' = Snapshot
    /\ run' = FreshRun(pos', bits, bits_left)
    /\ UNCHANGED <<data, bits, bits_left, sink, written>>

\* pos(): io.tell()
tell ==
    /\ op' = "pos"
    /\ arg' = NoArg
    /\ res' = IntRes(pos)
    /\ exc' = "none"
    /\ pre' = Snapshot
    /\ run' = FreshRun(pos, bits, bits_left)
    /\ UNCHANGED <<data, pos, bits, bits_left, sink, written>>

\* the io calls of size() that the source may fail: the first tell, the seek
\* to the end, the tell at the end
SizeFaults == {"none", "tell", "seek_end", "tell_end"}

\* outcome of size() when the io call named by fault raises: the statements
\* run in order and the first exception leaves the method
size_out(d, p, fault) ==
    IF fault = "tell" THEN [exc |-> "OSError", ret |-> 0, pos |-> p]
    ELSE LET cur_pos == p IN
         IF fault = "seek_end" THEN [exc |-> "OSError", ret |-> 0, pos |-> p]
         ELSE LET at_end == Len(d) IN
              IF fault = "tell_end" THEN [exc |-> "OSError", ret |-> 0, pos |-> at_end]
              ELSE LET full_size == at_end
                   IN  [exc |-> "none", ret |-> full_size, pos |-> cur_pos]

size(fault) ==
    LET o == size_out(data, pos, fault)
    IN  /\ pos' = o.pos
        /\ op' = "size"
        /\ arg' = [NoArg EXCEPT !.fault = fault]
        /\ res' = IF o.exc = "none" THEN IntRes(o.ret) ELSE NoRes
        /\ exc' = o.exc
        /\ pre' = Snapshot
        /\ run' = FreshRun(o.pos, bits, bits_left)
        /\ UNCHANGED <<data, bits, bits_left, sink, written>>

\* ------------------------------------------------------------------------
\* Unaligned bit values
\* ------------------------------------------------------------------------

\* bytes_needed without the -1: one byte too many at a multiple of 8
bytes_needed_floor(bits_needed) == (bits_needed \div 8) + 1

\* ((bits_needed - 1) // 8) + 1
bytes_needed(bits_needed) == ((bits_needed - 1) \div 8) + 1

\* (1 << n) - 1
mask(n) == Shl(1, n) - 1

\* one turn of the loop of read_bits_int_be: bits <<= 8; bits |= byte
be_push(b, byte) == BitOr(Shl(b, 8), byte)

\* le_push accumulating as read_bits_int_be does
le_push_be(b, bl, byte) == BitOr(Shl(b, 8), byte)

\* one turn of the loop of read_bits_int_le: bits |= (byte << bits_left)
le_push(b, bl, byte) == BitOr(b, Shl(byte, bl))

\* the loop `for byte in buf` of read_bits_int_be
RECURSIVE be_loop(_, _, _)
be_loop(b, bl, buf) ==
    IF buf = << >> THEN [bits |-> b, bits_left |-> bl]
    ELSE be_loop(be_push(b, Head(buf)), bl + 8, Tail(buf))

\* the loop `for byte in buf` of read_bits_int_le
RECURSIVE le_loop(_, _, _)
le_loop(b, bl, buf) ==
    IF buf = << >> THEN [bits |-> b, bits_left |-> bl]
    ELSE le_loop(le_push(b, bl, Head(buf)), bl + 8, Tail(buf))

\* be_extract without clearing the bits just read
be_extract_nomask(b, bl, n) ==
    LET shift_bits == bl - n
        r == BitAnd(Shr(b, shift_bits), mask(n))
        left == bl - n
    IN  [res |-> r, bits |-> b, bits_left |-> left]

\* the extraction of read_bits_int_be from the filled accumulator
be_extract(b, bl, n) ==
    LET shift_bits == bl - n
        r == BitAnd(Shr(b, shift_bits), mask(n))
        left == bl - n
    IN  [res |-> r, bits |-> BitAnd(b, mask(left)), bits_left |-> left]

\* the extraction of read_bits_int_le from the filled accumulator
le_extract(b, bl, n) ==
    [res |-> BitAnd(b, mask(n)), bits |-> Shr(b, n), bits_left |-> bl - n]

\* outcome of read_bits_int_be(n)
read_bits_int_be_out(d, p, b, bl, n) ==
    LET bits_needed == n - bl IN
    IF bits_needed > 0
    THEN LET rb == read_bytes_out(d, p, bytes_needed(bits_needed)) IN
         IF rb.exc # "none"
         THEN [exc |-> rb.exc, res |-> 0, pos |-> rb.pos, bits |-> b, bits_left |-> bl]
         ELSE LET acc == be_loop(b, bl, rb.bytes)
                  x == be_extract(acc.bits, acc.bits_left, n)
              IN  [exc |-> "none", res |-> x.res, pos |-> rb.pos,
                   bits |-> x.bits, bits_left |-> x.bits_left]
    ELSE LET x == be_extract(b, bl, n)
         IN  [exc |-> "none", res |-> x.res, pos |-> p,
              bits |-> x.bits, bits_left |-> x.bits_left]

\* outcome of read_bits_int_le(n)
read_bits_int_le_out(d, p, b, bl, n) ==
    LET bits_needed == n - bl IN
    IF bits_needed > 0
    THEN LET rb == read_bytes_out(d, p, bytes_needed(bits_needed)) IN
         IF rb.exc # "none"
         THEN [exc |-> rb.exc, res |-> 0, pos |-> rb.pos, bits |-> b, bits_left |-> bl]
         ELSE LET acc == le_loop(b, bl, rb.bytes)
                  x == le_extract(acc.bits, acc.bits_left, n)
              IN  [exc |-> "none", res |-> x.res, pos |-> rb.pos,
                   bits |-> x.bits, bits_left |-> x.bits_left]
    ELSE LET x == le_extract(b, bl, n)
         IN  [exc |-> "none", res |-> x.res, pos |-> p,
              bits |-> x.bits, bits_left |-> x.bits_left]

\* the record of big-endian reads after one more of them
NextRun(o, n) ==
    IF o.exc = "none" /\ run.ok
    THEN [run EXCEPT !.served = @ + n, !.value = BitOr(Shl(@, n), o.res)]
    ELSE FreshRun(o.pos, o.bits, o.bits_left)

BitRead(name, o, n) ==
    /\ pos' = o.pos
    /\ bits' = o.bits
    /\ bits_left' = o.bits_left
    /\ op' = name
    /\ arg' = [NoArg EXCEPT !.n = n]
    /\ res' = IF o.exc = "none" THEN IntRes(o.res) ELSE NoRes
    /\ exc' = o.exc
    /\ pre' = Snapshot
    /\ UNCHANGED <<data, sink, written>>

read_bits_int_be(n) ==
    LET o == read_bits_int_be_out(data, pos, bits, bits_left, n)
    IN  BitRead("read_bits_int_be", o, n) /\ run' = NextRun(o, n)

\* read_bits_int forwards to read_bits_int_be
read_bits_int(n) ==
    LET o == read_bits_int_be_out(data, pos, bits, bits_left, n)
    IN  BitRead("read_bits_int_be", o, n) /\ run' = NextRun(o, n)

read_bits_int_le(n) ==
    LET o == read_bits_int_le_out(data, pos, bits, bits_left, n)
    IN  BitRead("read_bits_int_le", o, n) /\ run' = FreshRun(o.pos, o.bits, o.bits_left)

\* ------------------------------------------------------------------------
\* Byte arrays: read_bytes_full, read_bytes_term, ensure_fixed_contents
\* ------------------------------------------------------------------------

read_bytes_full ==
    LET r == io_read_all(data, pos)
    IN  /\ pos' = pos + Len(r)
        /\ op' = "read_bytes_full"
        /\ arg' = NoArg
        /\ res' = BytesRes(r)
        /\ exc' = "none"
        /\ pre' = Snapshot
        /\ run' = FreshRun(pos', bits, bits_left)
        /\ UNCHANGED <<data, bits, bits_left, sink, written>>

\* term_hit with the seek-back test inverted
term_hit_inverted(r, c, p, include_term, consume_term) ==
    [exc |-> "none",
     bytes |-> IF include_term THEN r \o c ELSE r,
     pos |-> IF consume_term THEN p - 1 ELSE p]

\* what read_bytes_term does on reading the terminator c with r accumulated
\* and the cursor (already past c) at p
term_hit(r, c, p, include_term, consume_term) ==
    [exc |-> "none",
     bytes |-> IF include_term THEN r \o c ELSE r,
     pos |-> IF ~consume_term THEN p - 1 ELSE p]

\* the loop `while True` of read_bytes_term, with r accumulated so far
RECURSIVE read_bytes_term_out(_, _, _, _, _, _, _)
read_bytes_term_out(d, p, r, term, include_term, consume_term, eos_error) ==
    LET c == io_read(d, p, 1) IN
    IF c = << >>
    THEN IF eos_error
         THEN [exc |-> "Exception", bytes |-> << >>, pos |-> p]
         ELSE [exc |-> "none", bytes |-> r, pos |-> p]
    ELSE IF c[1] = term
    THEN term_hit(r, c, p + 1, include_term, consume_term)
    ELSE read_bytes_term_out(d, p + 1, r \o c, term, include_term, consume_term,
                             eos_error)

\* the terminators the scans look for
TermBytes == {0, 165}

read_bytes_term(term, include_term, consume_term, eos_error) ==
    LET o == read_bytes_term_out(data, pos, << >>, term, include_term, consume_term,
                                 eos_error)
    IN  /\ pos' = o.pos
        /\ op' = "read_bytes_term"
        /\ arg' = [NoArg EXCEPT !.term = term, !.include_term = include_term,
                                !.consume_term = consume_term, !.eos_error = eos_error]
        /\ res' = IF o.exc = "none" THEN BytesRes(o.bytes) ELSE NoRes
        /\ exc' = o.exc
        /\ pre' = Snapshot
        /\ run' = FreshRun(o.pos, bits, bits_left)
        /\ UNCHANGED <<data, bits, bits_left, sink, written>>

\* the literals ensure_fixed_contents is asked for
Literals == { << >>, <<0>>, <<165>>, <<60, 165>> }

ensure_fixed_contents(expected) ==
    LET actual == io_read(data, pos, Len(expected))
    IN  /\ pos' = pos + Len(actual)
        /\ op' = "ensure_fixed_contents"
        /\ arg' = [NoArg EXCEPT !.n = Len(expected)]
        /\ res' = IF actual # expected THEN NoRes ELSE BytesRes(actual)
        /\ exc' = IF actual # expected THEN "Exception" ELSE "none"
        /\ pre' = Snapshot
        /\ run' = FreshRun(pos', bits, bits_left)
        /\ UNCHANGED <<data, bits, bits_left, sink, written>>

\* ------------------------------------------------------------------------
\* The stream under any sequence of read-side calls
\* ------------------------------------------------------------------------

\* the calls that touch only the cursor
ByteCalls ==
    \/ align_to_byte
    \/ \E n \in -1..(MaxLen + 1) : read_bytes(n)
    \/ is_eof
    \/ \E n \in -1..(Len(data) + 1) : seek(n)
    \/ tell
    \/ \E f \in SizeFaults : size(f)
    \/ read_bytes_full
    \/ \E t \in TermBytes, i, c, e \in BOOLEAN : read_bytes_term(t, i, c, e)
    \/ \E x \in Literals : ensure_fixed_contents(x)

Next ==
    \/ ByteCalls
    \/ \E n \in 0..MaxWidth : read_bits_int_be(n)
    \/ \E n \in 0..MaxWidth : read_bits_int(n)
    \/ \E n \in 0..MaxWidth : read_bits_int_le(n)

Spec == Init /\ [][Next]_vars

\* ------------------------------------------------------------------------
\* The cursor alone, over longer sources
\* ------------------------------------------------------------------------

InitScan == \E d \in Sources \cup { TermExample } : Start(d)

NextScan == ByteCalls

SpecScan == InitScan /\ [][NextScan]_vars

\* ------------------------------------------------------------------------
\* The bit reads of both orders, up to MaxBits wide
\* ------------------------------------------------------------------------

NextBits ==
    \/ align_to_byte
    \/ seek(0)
    \/ \E n \in 0..MaxBits : read_bits_int_be(n)
    \/ \E n \in 0..MaxBits : read_bits_int(n)
    \/ \E n \in 0..MaxBits : read_bits_int_le(n)

SpecBits == Init /\ [][NextBits]_vars

\* ------------------------------------------------------------------------
\* The big-endian bit reads, over every one-byte source and the sources of Spec
\* ------------------------------------------------------------------------

InitBE == \E d \in Sources \cup ByteSources : Start(d)

NextBE ==
    \/ align_to_byte
    \/ seek(0)
    \/ \E n \in 0..MaxBits : read_bits_int_be(n)
    \/ \E n \in 0..MaxBits : read_bits_int(n)

SpecBE == InitBE /\ [][NextBE]_vars

\* ------------------------------------------------------------------------
\* Integer numbers: the packers, read_* and write_* of the 1- and 2-byte
\* shapes (the 4- and 8-byte shapes repeat the code of the 2-byte ones with
\* wider limits)
\* ------------------------------------------------------------------------

Shapes == {"u1", "s1", "u2be", "u2le", "s2be", "s2le"}

Width(sh) == IF sh \in {"u1", "s1"} THEN 1 ELSE 2
Signed(sh) == sh \in {"s1", "s2be", "s2le"}
LittleEndian(sh) == sh \in {"u2le", "s2le"}

\* the values struct.Struct(format).pack accepts: 'B', 'b', 'H', 'h'
PackerAccepts(sh, num) ==
    IF sh = "u1" THEN 0 <= num /\ num <= 255
    ELSE IF sh = "s1" THEN -128 <= num /\ num <= 127
    ELSE IF Signed(sh) THEN -32768 <= num /\ num <= 32767
    ELSE 0 <= num /\ num <= 65535

\* packer.pack(num) for an accepted num: two's complement in the byte order
pack(sh, num) ==
    LET m == Pow2(8 * Width(sh))
        u == IF num < 0 THEN num + m ELSE num
        be == IF Width(sh) = 1 THEN <<u>> ELSE <<u \div 256, u % 256>>
    IN  IF LittleEndian(sh) /\ Width(sh) = 2 THEN <<be[2], be[1]>> ELSE be

\* packer.unpack(buf)[0]
unpack(sh, buf) ==
    LET u == IF LittleEndian(sh) THEN LEValue(buf) ELSE BEValue(buf)
        m == Pow2(8 * Width(sh))
    IN  IF Signed(sh) /\ u >= m \div 2 THEN u - m ELSE u

\* the test at the head of each write_* method: "none" when num passes,
\* "return" when the method returns None, "raise" when it raises Exception
write_guard(sh, num) ==
    IF sh \in {"u1", "s1"}
    THEN IF ~(num \in -128..127) THEN "return" ELSE "none"
    ELSE IF Signed(sh)
    THEN IF ~((-32767 - 1) <= num /\ num <= 32767) THEN "raise" ELSE "none"
    ELSE IF ~(0 <= num /\ num <= 65535) THEN "raise" ELSE "none"

\* write_bytes(io, data) when io.write accepts the first `accepted` bytes
write_bytes_out(bytes, accepted) ==
    LET len_data == Len(bytes)
        num_written == accepted
    IN  IF num_written # len_data
        THEN [exc |-> "Exception", ret |-> NoRes, put |-> Slice(bytes, 0, accepted)]
        ELSE [exc |-> "none", ret |-> IntRes(num_written), put |-> bytes]

\* outcome of write_<sh>(io, num) when io.write falls `short` bytes short
write_out(sh, num, short) ==
    IF write_guard(sh, num) = "return"
    THEN [exc |-> "none", ret |-> NoRes, put |-> << >>]
    ELSE IF write_guard(sh, num) = "raise"
    THEN [exc |-> "Exception", ret |-> NoRes, put |-> << >>]
    ELSE IF ~PackerAccepts(sh, num)
    THEN [exc |-> "struct.error", ret |-> NoRes, put |-> << >>]
    ELSE write_bytes_out(pack(sh, num), Width(sh) - short)

write_int(sh, num, short) ==
    LET o == write_out(sh, num, short)
    IN  /\ Len(sink) + Width(sh) <= MaxSink
        /\ sink' = sink \o o.put
        /\ written' = IF o.exc = "none" /\ o.ret.kind = "int"
                      THEN Append(written, [shape |-> sh, num |-> num, at |-> Len(sink)])
                      ELSE written
        /\ op' = "write_int"
        /\ arg' = [NoArg EXCEPT !.shape = sh, !.num = num,
                                !.accepted = Width(sh) - short]
        /\ res' = o.ret
        /\ exc' = o.exc
        /\ pre' = Snapshot
        /\ UNCHANGED <<data, pos, bits, bits_left, run>>

\* read_<sh>(): unpack(read_bytes(width))
read_int(sh) ==
    LET o == read_bytes_out(data, pos, Width(sh))
    IN  /\ pos' = o.pos
        /\ op' = "read_int"
        /\ arg' = [NoArg EXCEPT !.shape = sh]
        /\ res' = IF o.exc = "none" THEN IntRes(unpack(sh, o.bytes)) ELSE NoRes
        /\ exc' = o.exc
        /\ pre' = Snapshot
        /\ run' = FreshRun(o.pos, bits, bits_left)
        /\ UNCHANGED <<data, bits, bits_left, sink, written>>

\* a stream constructed around the bytes the sink holds
open_written ==
    /\ data' = sink
    /\ pos' = 0
    /\ bits' = 0
    /\ bits_left' = 0
    /\ op' = "init"
    /\ arg' = NoArg
    /\ res' = NoRes
    /\ exc' = "none"
    /\ pre' = Snapshot
    /\ run' = FreshRun(0, 0, 0)
    /\ UNCHANGED <<sink, written>>

\* the integers handed to the write_* methods: the limits of each shape and
\* their neighbours
Nums == {-32769, -32768, -129, -128, -1, 0, 127, 128, 255, 256,
         32767, 32768, 65535, 65536}

\* the stream and the sink before any call
InitCodec == Start(<< >>)

NextCodec ==
    \/ \E sh \in Shapes, num \in Nums, short \in 0..1 : write_int(sh, num, short)
    \/ open_written
    \/ \E sh \in Shapes : read_int(sh)
    \/ \E n \in 0..Len(data) : seek(n)

SpecCodec == InitCodec /\ [][NextCodec]_vars

\* ------------------------------------------------------------------------
\* The accumulator under every read-side call: the byte-level calls, the
\* integer decoders and the bit reads of both orders up to MaxBits wide
\* ------------------------------------------------------------------------

NextAcc ==
    \/ align_to_byte
    \/ \E n \in -1..(MaxLen + 1) : read_bytes(n)
    \/ is_eof
    \/ \E n \in -1..(Len(data) + 1) : seek(n)
    \/ tell
    \/ \E f \in SizeFaults : size(f)
    \/ read_bytes_full
    \/ \E t \in TermBytes, c, e \in BOOLEAN : read_bytes_term(t, FALSE, c, e)
    \/ \E x \in Literals : ensure_fixed_contents(x)
    \/ \E sh \in Shapes : read_int(sh)
    \/ \E n \in 0..MaxAccBits : read_bits_int_be(n)
    \/ \E n \in 0..MaxAccBits : read_bits_int_le(n)

SpecAcc == Init /\ [][NextAcc]_vars

\* ------------------------------------------------------------------------
\* Byte array processing
\* ------------------------------------------------------------------------

\* the first n items itertools.cycle(key) yields: none when key is empty
cycle(key, n) ==
    IF key = << >> THEN << >> ELSE [i \in 1..n |-> key[((i - 1) % Len(key)) + 1]]

\* zip(a, b): pairs up to the shorter of the two
zip(a, b) == [i \in 1..Min(Len(a), Len(b)) |-> <<a[i], b[i]>>]

\* bytes(v ^ key for v in data)
process_xor_one_out(buf, key) == [i \in 1..Len(buf) |-> BitXor(buf[i], key)]

\* bytes(a ^ b for a, b in zip(data, itertools.cycle(key)))
process_xor_many_out(buf, key) ==
    LET z == zip(buf, cycle(key, Len(buf)))
    IN  [i \in 1..Len(z) |-> BitXor(z[i][1], z[i][2])]

Transform(name, a, r) ==
    /\ op' = name
    /\ arg' = a
    /\ res' = BytesRes(r)
    /\ exc' = "none"
    /\ pre' = Snapshot
    /\ UNCHANGED <<data, pos, bits, bits_left, sink, run, written>>

process_xor_one(buf, key) ==
    Transform("process_xor_one", [NoArg EXCEPT !.buf = buf, !.key = <<key>>],
              process_xor_one_out(buf, key))

process_xor_many(buf, key) ==
    Transform("process_xor_many", [NoArg EXCEPT !.buf = buf, !.key = key],
              process_xor_many_out(buf, key))

\* outcome of process_rotate_left(data, amount, group_size); Python's
\* `-amount & mask` is -amount modulo mask + 1, and `&` binds tighter than `|`
process_rotate_left_out(buf, amount, group_size) ==
    IF group_size # 1
    THEN [exc |-> "Exception", bytes |-> << >>]
    ELSE LET rot_mask == group_size * 8 - 1
             anti_amount == (-amount) % (rot_mask + 1)
         IN  [exc |-> "none",
              bytes |-> [i \in 1..Len(buf) |->
                            BitOr(BitAnd(Shl(buf[i], amount), 255),
                                  Shr(buf[i], anti_amount))]]

process_rotate_left(buf, amount, group_size) ==
    LET o == process_rotate_left_out(buf, amount, group_size)
    IN  /\ op' = "process_rotate_left"
        /\ arg' = [NoArg EXCEPT !.buf = buf, !.amount = amount,
                                !.group_size = group_size]
        /\ res' = IF o.exc = "none" THEN BytesRes(o.bytes) ELSE NoRes
        /\ exc' = o.exc
        /\ pre' = Snapshot
        /\ UNCHANGED <<data, pos, bits, bits_left, sink, run, written>>

\* the key bytes and keys handed to the transforms
KeyBytes == {1, 60, 255}
Keys == UNION { SeqsOfLen(KeyBytes, n) : n \in 0..MaxKey }

NextXform ==
    \/ \E buf \in Sources, k \in KeyBytes : process_xor_one(buf, k)
    \/ \E buf \in Sources, key \in Keys : process_xor_many(buf, key)
    \/ \E buf \in Sources, amount \in 0..MaxAmount, group_size \in 1..2 :
          process_rotate_left(buf, amount, group_size)

InitXform == Start(<< >>)

SpecXform == InitXform /\ [][NextXform]_vars

\* ------------------------------------------------------------------------
\* Properties
\* ------------------------------------------------------------------------

\* the bytes from the cursor p to the end of d
Remaining(d, p) == Slice(d, p, Len(d))

\* the values a shape represents
Representable(sh, num) ==
    LET half == Pow2(8 * Width(sh) - 1)
    IN  IF Signed(sh) THEN -half <= num /\ num < half ELSE 0 <= num /\ num < 2 * half

\* C1: writing a representable value with the write method of its shape
\* succeeds, and reading the written bytes with the matching read method
\* returns the value.
C1_RoundTrip ==
    /\ (op = "write_int" /\ Representable(arg.shape, arg.num)
          /\ arg.accepted = Width(arg.shape)) =>
          /\ exc = "none"
          /\ res = IntRes(Width(arg.shape))
          /\ sink = pre.sink \o pack(arg.shape, arg.num)
    /\ op = "read_int" =>
          \A i \in 1..Len(written) :
              (/\ written[i].shape = arg.shape
               /\ written[i].at = pre.pos
               /\ written[i].at + Width(arg.shape) <= Len(data)) =>
                  (exc = "none" /\ res = IntRes(written[i].num))

\* C2: writing a value outside the range of the shape fails with an error
\* (not a normal return) and the sink receives no byte.
C2_RangeRejection ==
    (op = "write_int" /\ ~Representable(arg.shape, arg.num)) =>
        (exc # "none" /\ sink = pre.sink)

CeilDiv8(n) == (n + 7) \div 8

Aligned(snap) == snap.bits = 0 /\ snap.bits_left = 0

\* C3: with exactly n bytes remaining and an empty accumulator, read_bytes(n+1)
\* raises EOFError while read_bytes(n) returns those n bytes, leaves the cursor
\* at the end of the source, and is_eof() is then true.
C3_EofBoundary ==
    (op = "read_bytes" /\ pre.bits_left = 0 /\ pre.pos <= Len(data)) =>
        LET n == Len(data) - pre.pos IN
        /\ arg.n = n + 1 => exc = "EOFError"
        /\ arg.n = n =>
              /\ exc = "none"
              /\ res.kind = "bytes"
              /\ res.bytes = Remaining(data, pre.pos)
              /\ Len(res.bytes) = n
              /\ pos = Len(data)
              /\ is_eof_out(data, pos, bits_left).ret = TRUE

C3_Witness ==
    /\ op = "read_bytes"
    /\ pre.bits_left = 0
    /\ pre.pos < Len(data)
    /\ arg.n = Len(data) - pre.pos
    /\ exc = "none"
    /\ pos = Len(data)

\* C4: a read_bytes(n) that fails for lack of bytes does not move the cursor
\* over the bytes that were remaining: they are still readable after it.
C4_FailedReadKeepsBytes ==
    (op = "read_bytes" /\ exc = "EOFError") =>
        Remaining(data, pos) = Remaining(data, pre.pos)

\* C5: is_eof() is true iff the accumulator holds no pending bits and no bytes
\* remain after the cursor, and it leaves the cursor and the accumulator as
\* they were.
C5_IsEofIff ==
    op = "is_eof" =>
        /\ res.kind = "bool"
        /\ res.bool <=> (pre.bits_left = 0 /\ Remaining(data, pre.pos) = << >>)
        /\ pos = pre.pos
        /\ bits = pre.bits
        /\ bits_left = pre.bits_left

C5_Witness ==
    /\ op = "is_eof"
    /\ pre.bits_left > 0
    /\ Remaining(data, pre.pos) = << >>
    /\ res.bool = FALSE

\* C6: after size() the cursor is where it was before the call on every path,
\* also when the seek to the end or an offset query raises.
C6_SizeRestoresCursor == op = "size" => pos = pre.pos

\* C7: from an empty accumulator, the results of consecutive big-endian bit
\* reads that do not hit the end, concatenated most significant bit first, are
\* the first n1+...+nk bits of the bytes after the cursor, and
\* ceil((n1+...+nk)/8) bytes are consumed; on a one-byte source b, n bits then
\* 8-n bits give (high << (8-n)) | low = b.
C7_BigEndianBitsInOrder ==
    /\ (op = "read_bits_int_be" /\ exc = "none") =>
          (res.kind = "int" /\ res.int >= 0 /\ res.int < Pow2(arg.n))
    /\ run.ok =>
          LET k == CeilDiv8(run.served)
              buf == Slice(data, run.start, run.start + k)
          IN  /\ Len(buf) = k
              /\ pos = run.start + k
              /\ run.value = Shr(BEValue(buf), 8 * k - run.served)
    /\ (run.ok /\ Len(data) = 1 /\ run.start = 0 /\ run.served = 8) =>
          run.value = data[1]

C7_Witness ==
    /\ run.ok
    /\ data = <<165>>
    /\ run.start = 0
    /\ run.served = 8
    /\ op = "read_bits_int_be"
    /\ arg.n = 5
    /\ pre.bits_left = 5
    /\ res.int = 5
    /\ run.value = 165

\* C8: from an empty accumulator read_bits_int_le(n) returns the low n bits of
\* the bytes taken first-byte-lowest, read_bits_int_be(n) the top n bits of the
\* bytes taken first-byte-highest; on [0xA5, 0x3C] 12 bits are 0xA53 big-endian
\* and 0xCA5 little-endian.
C8_OrderDivergence ==
    (op \in {"read_bits_int_le", "read_bits_int_be"} /\ Aligned(pre)) =>
        LET n == arg.n
            k == CeilDiv8(n)
            buf == Slice(data, pre.pos, pre.pos + k)
        IN  /\ exc = "none" <=> Len(buf) = k
            /\ (exc = "none" /\ op = "read_bits_int_le") =>
                  res.int = LEValue(buf) % Pow2(n)
            /\ (exc = "none" /\ op = "read_bits_int_be") =>
                  res.int = BEValue(buf) \div Pow2(8 * k - n)
            /\ (data = OrderExample /\ pre.pos = 0 /\ n = 12) =>
                  /\ exc = "none"
                  /\ op = "read_bits_int_be" => res.int = 2643
                  /\ op = "read_bits_int_le" => res.int = 3237

C8_Witness ==
    /\ op = "read_bits_int_le"
    /\ Aligned(pre)
    /\ data = OrderExample
    /\ pre.pos = 0
    /\ arg.n = 12
    /\ res.int = 3237

\* index (0-based) of the first occurrence of term in d at or after p, or -1
FirstAt(d, p, term) ==
    LET hits == { i \in p..(Len(d) - 1) : d[i + 1] = term }
    IN  IF hits = {} THEN -1 ELSE CHOOSE i \in hits : \A j \in hits : i <= j

\* C9: when the first term byte at or after the cursor p is at index t,
\* read_bytes_term returns the bytes [p, t), followed by the terminator iff
\* include_term, and leaves the cursor at t+1 if consume_term and at t if not;
\* "abc\x00def" with terminator 0, neither included nor consumed, gives "abc"
\* with the cursor on the 0 byte.
C9_TerminatorScan ==
    (op = "read_bytes_term" /\ FirstAt(data, pre.pos, arg.term) >= 0) =>
        LET t == FirstAt(data, pre.pos, arg.term) IN
        /\ exc = "none"
        /\ res.kind = "bytes"
        /\ res.bytes = Slice(data, pre.pos, t)
                         \o (IF arg.include_term THEN <<arg.term>> ELSE << >>)
        /\ pos = IF arg.consume_term THEN t + 1 ELSE t
        /\ ~arg.consume_term => io_read(data, pos, 1) = <<arg.term>>
        /\ (data = TermExample /\ pre.pos = 0 /\ arg.term = 0
              /\ ~arg.include_term /\ ~arg.consume_term) =>
              (res.bytes = <<97, 98, 99>> /\ pos = 3)

C9_Witness ==
    /\ op = "read_bytes_term"
    /\ data = TermExample
    /\ pre.pos = 0
    /\ arg.term = 0
    /\ ~arg.include_term
    /\ ~arg.consume_term
    /\ res.bytes = <<97, 98, 99>>
    /\ pos = 3

\* C10: process_xor_many with an empty key fails for every data buffer; it
\* never returns a result.
C10_EmptyKeyFails == (op = "process_xor_many" /\ arg.key = << >>) => exc # "none"

\* the circular left rotation of the 8-bit value b by k bits, 0 <= k < 8
RotL8(b, k) == ((b * Pow2(k)) % 256) + (b \div Pow2(8 - k))

\* C11: process_rotate_left(data, amount, 1) returns, for every buffer and
\* every amount >= 0, each byte rotated left circularly by amount mod 8 bits,
\* within 0..255; amounts 0 and 8 return data unchanged.
C11_RotateLeftModEight ==
    (op = "process_rotate_left" /\ arg.group_size = 1) =>
        /\ exc = "none"
        /\ Len(res.bytes) = Len(arg.buf)
        /\ \A i \in 1..Len(arg.buf) :
              /\ res.bytes[i] \in 0..255
              /\ res.bytes[i] = RotL8(arg.buf[i], arg.amount % 8)
        /\ arg.amount \in {0, 8} => res.bytes = arg.buf

\* C12: from a newly constructed stream, after any sequence of bit reads of
\* either order (succeeding or failing at the end of the source), byte-level
\* reads and re-alignments, bits_left is within 0..63 and bits holds no set
\* bit at or above position bits_left.
C12_AccumulatorInvariant ==
    /\ bits_left \in 0..63
    /\ bits >= 0
    /\ bits < Pow2(bits_left)

C12_Witness ==
    /\ op = "read_bits_int_be"
    /\ exc = "none"
    /\ arg.n = 9
    /\ pre.bits_left = 3
    /\ bits_left = 2
    /\ bits > 0

\* the calls that work on whole bytes
ByteOps ==
    {"read_bytes", "read_int", "read_bytes_full", "seek", "pos", "size",
     "read_bytes_term", "ensure_fixed_contents", "is_eof"}

BitOps == {"read_bits_int_be", "read_bits_int_le"}

\* C13: align_to_byte resets (bits, bits_left) to (0, 0), so that the next bit
\* read starts at the next unread byte; every byte-level call leaves them
\* unchanged, so that bits left over by a bit read are served to a later bit
\* read, without touching the source, unless align_to_byte was called.
C13_ClearedOnlyByAlign ==
    /\ op = "align_to_byte" => (bits = 0 /\ bits_left = 0 /\ pos = pre.pos)
    /\ op \in ByteOps => (bits = pre.bits /\ bits_left = pre.bits_left)
    /\ (op \in BitOps /\ arg.n <= pre.bits_left) =>
          /\ exc = "none"
          /\ pos = pre.pos
          /\ bits_left = pre.bits_left - arg.n
          /\ op = "read_bits_int_be" =>
                res.int = Shr(pre.bits, pre.bits_left - arg.n)
          /\ op = "read_bits_int_le" => res.int = pre.bits % Pow2(arg.n)
    /\ (op \in BitOps /\ Aligned(pre) /\ exc = "none") =>
          /\ pos = pre.pos + CeilDiv8(arg.n)
          /\ op = "read_bits_int_be" =>
                res.int = Shr(BEValue(Slice(data, pre.pos, pos)), 8 * (pos - pre.pos) - arg.n)
          /\ op = "read_bits_int_le" =>
                res.int = LEValue(Slice(data, pre.pos, pos)) % Pow2(arg.n)

C13_Witness ==
    /\ op = "seek"
    /\ exc = "none"
    /\ pos # pre.pos
    /\ pre.bits_left > 0
    /\ bits_left = pre.bits_left
    /\ bits = pre.bits
    /\ bits > 0

====
